---- MODULE Spec2Model ----
(***************************************************************************)
(* minivtun, src/library.c: the cipher registry (get_crypto_type), the key *)
(* deriver (fill_with_string_md5sum) and the datagram transform engine     *)
(* (datagram_encrypt, datagram_decrypt, CRYPTO_DATA_PADDING).              *)
(*                                                                         *)
(* Memory is modelled byte by byte: a buffer is a function from the byte   *)
(* offsets 0..N-1 to 0..255 that also covers the bytes that follow the     *)
(* caller's buffer, so that a write past the end of a buffer is visible.   *)
(* Strings are sequences of character codes (the terminating NUL is the    *)
(* end of the sequence).                                                   *)
(***************************************************************************)
EXTENDS Integers, Sequences, FiniteSets, TLC

(* ------------------------------------------------------------------ *)
(* Bounds of the model                                                  *)
(* ------------------------------------------------------------------ *)
\* Longest datagram of a session (more than one 16-byte block, two 8-byte blocks).
MaxLen == 17
\* Longest datagram of the two concurrent calls (more than one 8-byte block).
ConcMaxLen == 9
\* Largest outlen handed to fill_with_string_md5sum (two tiles and a truncated one).
MaxKeyLen == 40
\* Largest block size and largest number of blocks tried on CRYPTO_DATA_PADDING alone.
MaxBs == 17
MaxBlocks == 3

(* ------------------------------------------------------------------ *)
(* Bytes                                                                *)
(* ------------------------------------------------------------------ *)
RECURSIVE XorBits(_, _, _)
XorBits(a, b, n) ==
    IF n = 0 THEN 0
    ELSE ((a + b) % 2) + 2 * XorBits(a \div 2, b \div 2, n - 1)

\* a ^ b on unsigned char
Xor8(a, b) == XorBits(a, b, 8)

\* What a byte of memory may hold before anything is written to it
\* (uninitialised memory; never zero, so that zero filling is visible).
JunkBytes == {238, 85}

\* memory of n bytes, all uninitialised and holding j
FreshMem(n, j) == [i \in 0..(n - 1) |-> j]

\* memory of n bytes that starts with the bytes of the sequence s
MemOf(s, n, j) == [i \in 0..(n - 1) |-> IF i < Len(s) THEN s[i + 1] ELSE j]

\* memcpy(dst + at, src, n) where src is a sequence of at least n bytes
MemWrite(mem, at, src, n) ==
    [i \in DOMAIN mem |-> IF i >= at /\ i < at + n THEN src[i - at + 1] ELSE mem[i]]

\* memset(dst + at, c, n)
MemSet(mem, at, c, n) ==
    [i \in DOMAIN mem |-> IF i >= at /\ i < at + n THEN c ELSE mem[i]]

\* the n bytes at mem + at, as a sequence
MemRead(mem, at, n) == [i \in 1..n |-> mem[at + i - 1]]

(* ------------------------------------------------------------------ *)
(* library.h                                                            *)
(* ------------------------------------------------------------------ *)
CRYPTO_MAX_KEY_SIZE == 32
CRYPTO_MAX_BLOCK_SIZE == 32

(* ------------------------------------------------------------------ *)
(* Cipher registry                                                      *)
(* ------------------------------------------------------------------ *)
NULL == 0

\* cipher_pairs[]: the name, and what the EVP_CIPHER the entry's function
\* returns reports (EVP_CIPHER_key_length, EVP_CIPHER_iv_length,
\* EVP_CIPHER_block_size) and whether it is a CBC block cipher or a stream.
cipher_pairs ==
    << [name |-> <<97, 101, 115, 45, 49, 50, 56>>,   \* "aes-128"
        key_length |-> 16, iv_length |-> 16, block_size |-> 16, mode |-> "cbc"],
       [name |-> <<97, 101, 115, 45, 50, 53, 54>>,   \* "aes-256"
        key_length |-> 32, iv_length |-> 16, block_size |-> 16, mode |-> "cbc"],
       [name |-> <<100, 101, 115>>,                  \* "des"
        key_length |-> 8, iv_length |-> 8, block_size |-> 8, mode |-> "cbc"],
       [name |-> <<100, 101, 115, 120>>,             \* "desx"
        key_length |-> 24, iv_length |-> 8, block_size |-> 8, mode |-> "cbc"],
       [name |-> <<114, 99, 52>>,                    \* "rc4"
        key_length |-> 16, iv_length |-> 0, block_size |-> 1, mode |-> "stream"] >>

\* countof(cipher_pairs)
countof_cipher_pairs == Len(cipher_pairs)

\* A resolved descriptor is the (1-based) place of its entry in cipher_pairs.
Ciphers == 1..countof_cipher_pairs

EVP_CIPHER_key_length(c) == cipher_pairs[c].key_length
EVP_CIPHER_iv_length(c) == cipher_pairs[c].iv_length
EVP_CIPHER_block_size(c) == cipher_pairs[c].block_size

\* tolower() in the "C" locale; before it the faulty fold c | 0x20, which
\* also changes characters that are no letters
ToLowerOr32(c) == IF (c \div 32) % 2 = 0 /\ c # 0 THEN c + 32 ELSE c
tolower(c) == IF c >= 65 /\ c <= 90 THEN c + 32 ELSE c

\* s[i] of a NUL-terminated string (1-based)
CharAt(s, i) == IF i <= Len(s) THEN s[i] ELSE 0

\* strcasecmp(a, b): the difference of the first two characters that differ
\* after case folding, 0 when the strings end together
RECURSIVE StrCaseCmpFrom(_, _, _)
StrCaseCmpFrom(a, b, i) ==
    LET ca == tolower(CharAt(a, i))
        cb == tolower(CharAt(b, i))
    IN  IF ca # cb THEN ca - cb
        ELSE IF ca = 0 THEN 0
        ELSE StrCaseCmpFrom(a, b, i + 1)

strcasecmp(a, b) == StrCaseCmpFrom(a, b, 1)

\* The for loop of get_crypto_type from index i on (1-based): the first entry
\* whose name matches, NULL when the loop runs out.
RECURSIVE CipherLookupFrom(_, _)
CipherLookupFrom(name, i) ==
    IF i > countof_cipher_pairs THEN NULL
    ELSE IF strcasecmp(cipher_pairs[i].name, name) = 0 THEN i
    ELSE CipherLookupFrom(name, i + 1)

\* get_crypto_type(name): [ret |-> the descriptor or NULL, aborted |-> an
\* assert() failed]
get_crypto_type(name) ==
    LET cipher == CipherLookupFrom(name, 1)
    IN  IF cipher # NULL
        THEN [ret |-> cipher,
              aborted |-> ~(/\ EVP_CIPHER_key_length(cipher) <= CRYPTO_MAX_KEY_SIZE
                            /\ EVP_CIPHER_iv_length(cipher) <= CRYPTO_MAX_BLOCK_SIZE)]
        ELSE [ret |-> NULL, aborted |-> FALSE]

(* ------------------------------------------------------------------ *)
(* Key material deriver                                                 *)
(* ------------------------------------------------------------------ *)
RECURSIVE SumWeighted(_, _, _)
SumWeighted(s, i, j) ==
    IF i > Len(s) THEN 0 ELSE s[i] * (i + j) + SumWeighted(s, i + 1, j)

\* MD5_Init, MD5_Update(in, strlen(in)), MD5_Final: the 16-byte digest of the
\* string. OpenSSL's MD5 is stood in for by a fixed function of the string's
\* bytes that always yields 16 bytes.
MD5_DIGEST_LENGTH == 16
MD5(in) ==
    [j \in 1..MD5_DIGEST_LENGTH |-> (103 + 69 * j + Len(in) + SumWeighted(in, 1, j)) % 256]

\* One memcpy of the tiling loop: bs bytes of the start of out copied to outp.
TileCopy(mem, outp, bs) == MemWrite(mem, outp, MemRead(mem, 0, bs), bs)

\* The tiling loop from outp on:
\*   for (outp += 16; outp < oute; outp += 16) { bs = ...; memcpy(outp, out, bs); }
\* st = [mem |-> the memory at out, written |-> the offsets written so far]
\* size_t bs = (oute - outp >= 16) ? 16 : (oute - outp); before it the
\* faulty variant that leaves a last, partial tile unfilled
TileSizeWholeOnly(outp, oute) == IF oute - outp >= 16 THEN 16 ELSE 0
TileSize(outp, oute) == IF oute - outp >= 16 THEN 16 ELSE oute - outp

RECURSIVE TileLoop(_, _, _)
TileLoop(st, outp, oute) ==
    IF outp < oute
    THEN LET bs == TileSize(outp, oute)
         IN  TileLoop([mem |-> TileCopy(st.mem, outp, bs),
                       written |-> st.written \cup (outp..(outp + bs - 1))],
                      outp + 16, oute)
    ELSE st

\* MD5_Final(out, &ctx): the 16 bytes of the digest stored at out
MD5_Final(mem, digest) == MemWrite(mem, 0, digest, MD5_DIGEST_LENGTH)

\* fill_with_string_md5sum(in, out, outlen) on the memory at out:
\* the memory afterwards and the offsets it wrote.
fill_with_string_md5sum(in, mem, outlen) ==
    TileLoop([mem |-> MD5_Final(mem, MD5(in)),
              written |-> 0..(MD5_DIGEST_LENGTH - 1)],
             16, outlen)

(* ------------------------------------------------------------------ *)
(* OpenSSL EVP, as far as the engine uses it                            *)
(* ------------------------------------------------------------------ *)
\* The block ciphers are stood in for by a keyed bijection on blocks (the
\* block rotated by one byte, each byte shifted by a key byte and the
\* cipher's number) and rc4 by a keyed stream that is xor-ed on; CBC
\* chaining, the context's buffering of partial blocks and the failure of
\* the final step on a partial block (padding disabled) are as in EVP.
KeyByte(key, j) == key[((j - 1) % Len(key)) + 1]

BlockEnc(c, key, blk) ==
    LET bsz == Len(blk)
    IN  [j \in 1..bsz |-> (blk[(j % bsz) + 1] + KeyByte(key, j) + c) % 256]

BlockDec(c, key, cb) ==
    LET bsz == Len(cb)
    IN  [m \in 1..bsz |->
            LET j == ((m + bsz - 2) % bsz) + 1
            IN  (cb[j] + 512 - KeyByte(key, j) - c) % 256]

XorSeq(a, b) == [j \in 1..Len(a) |-> Xor8(a[j], b[j])]

\* CBC over whole blocks: the output and the chaining value left in the context
RECURSIVE CbcRun(_, _, _, _, _, _)
CbcRun(c, key, chain, data, bsz, enc) ==
    IF Len(data) < bsz THEN [out |-> <<>>, chain |-> chain]
    ELSE LET blk == SubSeq(data, 1, bsz)
             ob == IF enc THEN BlockEnc(c, key, XorSeq(blk, chain))
                          ELSE XorSeq(BlockDec(c, key, blk), chain)
             rest == CbcRun(c, key, IF enc THEN ob ELSE blk,
                            SubSeq(data, bsz + 1, Len(data)), bsz, enc)
         IN  [out |-> ob \o rest.out, chain |-> rest.chain]

\* the stream cipher's key stream byte number n (0-based)
StreamByte(key, n) == (KeyByte(key, n + 1) * 3 + n * 7 + 1) % 256

\* EVP_CIPHER_CTX_init: a context that holds nothing
NoCtx == [cipher |-> NULL, key |-> <<>>, chain |-> <<>>, num |-> 0,
          buf_len |-> 0, encrypt |-> FALSE]

\* EVP_EncryptInit_ex / EVP_DecryptInit_ex (ctx, cptype, NULL, key, iv):
\* the context takes key_length bytes at key and iv_length bytes at iv.
EVP_CipherInit_ex(c, key_mem, iv_mem, enc) ==
    [cipher |-> c,
     key |-> MemRead(key_mem, 0, EVP_CIPHER_key_length(c)),
     chain |-> MemRead(iv_mem, 0, EVP_CIPHER_iv_length(c)),
     num |-> 0, buf_len |-> 0, encrypt |-> enc]

\* EVP_EncryptUpdate / EVP_DecryptUpdate (ctx, out, &outl, in, inl) with
\* padding disabled: the whole blocks of the input are transformed, the
\* rest stays buffered in the context.
EVP_CipherUpdate(cx, data) ==
    LET c == cx.cipher
        bsz == EVP_CIPHER_block_size(c)
        n == (Len(data) \div bsz) * bsz
    IN  IF cipher_pairs[c].mode = "stream"
        THEN [out |-> [j \in 1..Len(data) |->
                          Xor8(data[j], StreamByte(cx.key, cx.num + j - 1))],
              ctx |-> [cx EXCEPT !.num = @ + Len(data)]]
        ELSE LET r == CbcRun(c, cx.key, cx.chain, SubSeq(data, 1, n), bsz, cx.encrypt)
             IN  [out |-> r.out,
                  ctx |-> [cx EXCEPT !.chain = r.chain, !.buf_len = Len(data) - n]]

\* EVP_EncryptFinal_ex / EVP_DecryptFinal_ex with padding disabled: no
\* output; it fails when a partial block is left in the context.
EVP_CipherFinal_ex(cx) == [ok |-> cx.buf_len = 0, outl2 |-> 0]

(* ------------------------------------------------------------------ *)
(* Datagram transform engine                                            *)
(* ------------------------------------------------------------------ *)
\* static const char crypto_ivec_initdata[CRYPTO_MAX_BLOCK_SIZE]
IvecInit ==
    [i \in 1..CRYPTO_MAX_BLOCK_SIZE |->
        << 171, 205, 239, 18, 52, 86, 120, 144 >>[((i - 1) % 8) + 1]]

\* size_t padding_len = bs - last_len; before it two faulty variants (one
\* byte too many, a whole block)
PaddingLenOffByOne(last_len, bs) == bs - last_len + 1
PaddingLenWholeBlock(last_len, bs) == bs
PaddingLen(last_len, bs) == bs - last_len

\* CRYPTO_DATA_PADDING(data, dlen, bs): the memory at data, *dlen and the
\* offsets written; before it the faulty variant that extends *dlen and
\* leaves the memset out
CRYPTO_DATA_PADDING_nomemset(mem, dlen, bs) ==
    LET last_len == dlen % bs
    IN  IF last_len # 0
        THEN [mem |-> mem, dlen |-> dlen + (bs - last_len),
              written |-> {}]
        ELSE [mem |-> mem, dlen |-> dlen, written |-> {}]

CRYPTO_DATA_PADDING(mem, dlen, bs) ==
    LET last_len == dlen % bs
    IN  IF last_len # 0
        THEN LET padding_len == PaddingLen(last_len, bs)
             IN  [mem |-> MemSet(mem, dlen, 0, padding_len),
                  dlen |-> dlen + padding_len,
                  written |-> dlen..(dlen + padding_len - 1)]
        ELSE [mem |-> mem, dlen |-> dlen, written |-> {}]

\* size_t iv_len = EVP_CIPHER_iv_length(cptype); if (iv_len == 0) iv_len = 16;
\* before it two faulty variants (the key length taken for the IV length,
\* a default of 1 in place of 16)
IvLenFromKey(c) == EVP_CIPHER_key_length(c)
IvLenNoDefault(c) == IF EVP_CIPHER_iv_length(c) = 0 THEN 1 ELSE EVP_CIPHER_iv_length(c)
IvLen(c) == IF EVP_CIPHER_iv_length(c) = 0 THEN 16 ELSE EVP_CIPHER_iv_length(c)

\* assert(e): abort() when e is false; before it the faulty variant that
\* goes on whatever e is
c_assert_ignored(e) == "running"
c_assert(e) == IF e THEN "running" ELSE "aborted"

\* EVP_CIPHER_CTX ctx is a local of each call: the context call t works on;
\* before it the faulty variant of one static context for all calls
CtxStatic(t) == 1
CtxOf(t) == t

(* ------------------------------------------------------------------ *)
(* Inputs                                                               *)
(* ------------------------------------------------------------------ *)
\* Cipher names handed to get_crypto_type: the table's names, the same in
\* other letter cases, and names that are in no entry.
Names ==
    { <<97, 101, 115, 45, 49, 50, 56>>,        \* "aes-128"
      <<97, 101, 115, 45, 50, 53, 54>>,        \* "aes-256"
      <<100, 101, 115>>,                       \* "des"
      <<100, 101, 115, 120>>,                  \* "desx"
      <<114, 99, 52>>,                         \* "rc4"
      <<65, 69, 83, 45, 49, 50, 56>>,          \* "AES-128"
      <<68, 101, 115, 88>>,                    \* "DesX"
      <<82, 67, 52>>,                          \* "RC4"
      <<98, 108, 111, 119, 102, 105, 115, 104>>, \* "blowfish"
      << >>,                                   \* ""
      <<97, 101, 115>>,                        \* "aes"
      <<97, 101, 115, 45, 49, 50, 56, 48>>,    \* "aes-1280"
      <<97, 101, 115, 13, 49, 50, 56>>,        \* "aes\r128"
      <<100, 101, 115, 32>>,                   \* "des "
      <<100, 69, 83, 120, 120>>,               \* "dESxx"
      <<114, 99>>,                             \* "rc"
      <<114, 99, 20>> }                        \* "rc\x14"

\* Passphrases: "", "secret", "a"; the sessions all use "secret"
Passphrases == { << >>, <<115, 101, 99, 114, 101, 116>>, <<97>> }
SessionPassphrases == { <<115, 101, 99, 114, 101, 116>> }

\* Plaintexts: byte i (1-based) of the plaintext of pattern p
Patterns == {0, 77}
PlainOf(len, p) == [i \in 1..len |-> (p * i) % 256]

\* Room the caller's buffer has after the datagram's bytes
Slacks == {0, 8, 16}

Calls == {1, 2}

(* ------------------------------------------------------------------ *)
(* State                                                                *)
(* ------------------------------------------------------------------ *)
VARIABLES
    name,                 \* the cipher name of the configuration
    crypto_type,          \* what get_crypto_type returned
    passwd,               \* the passphrase
    crypto_key,           \* the memory at the key buffer
    key_outlen,           \* outlen of the last fill_with_string_md5sum
    key_cap,              \* the key buffer's physical size
    key_written,          \* the offsets fill_with_string_md5sum wrote
    key_calls,            \* calls of fill_with_string_md5sum so far
    key_first,            \* the key bytes the first call left
    junk,                 \* what uninitialised memory holds
    crypto_ivec_initdata, \* the static IV data
    main_pc,              \* where the caller is
    proc,                 \* "running", "aborted" (abort()), "segv"
    pc,                   \* per call: where the call is
    op,                   \* per call: "encrypt" or "decrypt"
    cptype,               \* per call: the cipher descriptor
    in_mem,               \* per call: the memory at in
    in_cap,               \* per call: the physical size of the buffer at in
    dlen,                 \* per call: *dlen
    out_mem,              \* per call: the memory at out
    iv,                   \* per call: unsigned char iv[CRYPTO_MAX_KEY_SIZE]
    ctx,                  \* the cipher contexts
    outl,                 \* per call: outl
    outl2,                \* per call: outl2
    plain,                \* per call: the bytes handed in (length *dlen at entry)
    in_written,           \* per call: the offsets of in the padding wrote
    evp_failed,           \* per call: an EVP call of this call returned 0
    enc_plain,            \* per call: the plaintext of the encrypt the call decrypts
    pad_bs                \* the block size CRYPTO_DATA_PADDING is tried with

vars == << name, crypto_type, passwd, crypto_key, key_outlen, key_cap, key_written,
           key_calls, key_first, junk, crypto_ivec_initdata, main_pc, proc, pc, op,
           cptype, in_mem, in_cap, dlen, out_mem, iv, ctx, outl, outl2, plain,
           in_written, evp_failed, enc_plain, pad_bs >>

cfg_vars == << name, crypto_type, passwd >>
key_vars == << crypto_key, key_outlen, key_cap, key_written, key_calls, key_first >>
call_vars == << pc, op, cptype, in_mem, in_cap, dlen, out_mem, iv, ctx, outl, outl2,
                plain, in_written, evp_failed, enc_plain >>

\* the size of the memory modelled at the key buffer
KeyMemSize == CRYPTO_MAX_KEY_SIZE + MaxKeyLen + MD5_DIGEST_LENGTH

NoCall ==
    /\ pc = [t \in Calls |-> "idle"]
    /\ op = [t \in Calls |-> "none"]
    /\ cptype = [t \in Calls |-> NULL]
    /\ in_mem = [t \in Calls |-> << >>]
    /\ in_cap = [t \in Calls |-> 0]
    /\ dlen = [t \in Calls |-> 0]
    /\ out_mem = [t \in Calls |-> << >>]
    /\ iv = [t \in Calls |-> << >>]
    /\ ctx = [t \in Calls |-> NoCtx]
    /\ outl = [t \in Calls |-> 0]
    /\ outl2 = [t \in Calls |-> 0]
    /\ plain = [t \in Calls |-> << >>]
    /\ in_written = [t \in Calls |-> {}]
    /\ evp_failed = [t \in Calls |-> FALSE]
    /\ enc_plain = [t \in Calls |-> << >>]

NoKey ==
    /\ crypto_key = FreshMem(KeyMemSize, junk)
    /\ key_outlen = 0
    /\ key_cap = CRYPTO_MAX_KEY_SIZE
    /\ key_written = {}
    /\ key_calls = 0
    /\ key_first = << >>

(* ------------------------------------------------------------------ *)
(* The transform engine, step by step                                   *)
(* ------------------------------------------------------------------ *)
\* What becomes of the process after a write to the offsets w of a buffer of
\* cap bytes: a write past the end is undefined, the process goes on with
\* the bytes behind the buffer overwritten or it is killed.
AfterWrite(w, cap) ==
    IF \E i \in w : i >= cap THEN {"running", "segv"} ELSE {"running"}

\* The caller hands call t a buffer: data of *dlen bytes in a buffer of cap
\* bytes, uninitialised behind the data.
Enter(t, o, c, data, cap) ==
    LET size == Len(data) + CRYPTO_MAX_BLOCK_SIZE
    IN  /\ pc' = [pc EXCEPT ![t] = "pad"]
        /\ op' = [op EXCEPT ![t] = o]
        /\ cptype' = [cptype EXCEPT ![t] = c]
        /\ in_mem' = [in_mem EXCEPT ![t] = MemOf(data, size, junk)]
        /\ in_cap' = [in_cap EXCEPT ![t] = cap]
        /\ dlen' = [dlen EXCEPT ![t] = Len(data)]
        /\ out_mem' = [out_mem EXCEPT ![t] = FreshMem(size, junk)]
        /\ iv' = [iv EXCEPT ![t] = FreshMem(CRYPTO_MAX_KEY_SIZE, junk)]
        /\ outl' = [outl EXCEPT ![t] = 0]
        /\ outl2' = [outl2 EXCEPT ![t] = 0]
        /\ plain' = [plain EXCEPT ![t] = data]
        /\ in_written' = [in_written EXCEPT ![t] = {}]
        /\ evp_failed' = [evp_failed EXCEPT ![t] = FALSE]

\* iv_len; memcpy(iv, crypto_ivec_initdata, iv_len); CRYPTO_DATA_PADDING(in, dlen, iv_len)
Pad(t) ==
    /\ proc = "running"
    /\ pc[t] = "pad"
    /\ LET iv_len == IvLen(cptype[t])
           r == CRYPTO_DATA_PADDING(in_mem[t], dlen[t], iv_len)
       IN  /\ iv' = [iv EXCEPT ![t] = MemWrite(@, 0, crypto_ivec_initdata, iv_len)]
           /\ in_mem' = [in_mem EXCEPT ![t] = r.mem]
           /\ dlen' = [dlen EXCEPT ![t] = r.dlen]
           /\ in_written' = [in_written EXCEPT ![t] = r.written]
           /\ proc' \in AfterWrite(r.written, in_cap[t])
    /\ pc' = [pc EXCEPT ![t] = "init"]
    /\ UNCHANGED << cfg_vars, key_vars, junk, crypto_ivec_initdata, main_pc, op, cptype,
                    in_cap, out_mem, ctx, outl, outl2, plain, evp_failed, enc_plain,
                    pad_bs >>

\* EVP_CIPHER_CTX_init(&ctx); assert(EVP_EncryptInit_ex / EVP_DecryptInit_ex
\* (&ctx, cptype, NULL, key, iv)); EVP_CIPHER_CTX_set_padding(&ctx, 0)
CipherInit(t) ==
    /\ proc = "running"
    /\ pc[t] = "init"
    /\ \E ok \in BOOLEAN :
          /\ ctx' = [ctx EXCEPT ![CtxOf(t)] =
                        EVP_CipherInit_ex(cptype[t], crypto_key, iv[t], op[t] = "encrypt")]
          /\ evp_failed' = [evp_failed EXCEPT ![t] = @ \/ ~ok]
          /\ proc' = c_assert(ok)
    /\ pc' = [pc EXCEPT ![t] = IF proc' = "running" THEN "update" ELSE @]
    /\ UNCHANGED << cfg_vars, key_vars, junk, crypto_ivec_initdata, main_pc, op, cptype,
                    in_mem, in_cap, dlen, out_mem, iv, outl, outl2, plain, in_written,
                    enc_plain, pad_bs >>

\* assert(EVP_EncryptUpdate / EVP_DecryptUpdate(&ctx, out, &outl, in, *dlen))
CipherUpdate(t) ==
    /\ proc = "running"
    /\ pc[t] = "update"
    /\ \E ok \in BOOLEAN :
          LET r == EVP_CipherUpdate(ctx[CtxOf(t)], MemRead(in_mem[t], 0, dlen[t]))
          IN  /\ ctx' = [ctx EXCEPT ![CtxOf(t)] = r.ctx]
              /\ out_mem' = [out_mem EXCEPT ![t] = MemWrite(@, 0, r.out, Len(r.out))]
              /\ outl' = [outl EXCEPT ![t] = Len(r.out)]
              /\ evp_failed' = [evp_failed EXCEPT ![t] = @ \/ ~ok]
              /\ proc' = c_assert(ok)
    /\ pc' = [pc EXCEPT ![t] = IF proc' = "running" THEN "final" ELSE @]
    /\ UNCHANGED << cfg_vars, key_vars, junk, crypto_ivec_initdata, main_pc, op, cptype,
                    in_mem, in_cap, dlen, iv, outl2, plain, in_written, enc_plain,
                    pad_bs >>

\* assert(EVP_EncryptFinal_ex / EVP_DecryptFinal_ex(&ctx, out + outl, &outl2));
\* EVP_CIPHER_CTX_cleanup(&ctx); *dlen = (size_t)(outl + outl2)
CipherFinal(t) ==
    /\ proc = "running"
    /\ pc[t] = "final"
    /\ \E ok \in BOOLEAN :
          LET r == EVP_CipherFinal_ex(ctx[CtxOf(t)])
          IN  /\ outl2' = [outl2 EXCEPT ![t] = r.outl2]
              /\ evp_failed' = [evp_failed EXCEPT ![t] = @ \/ ~(ok /\ r.ok)]
              /\ proc' = c_assert(ok /\ r.ok)
              /\ ctx' = [ctx EXCEPT ![CtxOf(t)] = IF proc' = "running" THEN NoCtx ELSE @]
              /\ dlen' = [dlen EXCEPT ![t] =
                             IF proc' = "running" THEN outl[t] + r.outl2 ELSE @]
    /\ pc' = [pc EXCEPT ![t] = IF proc' = "running" THEN "ret" ELSE @]
    /\ UNCHANGED << cfg_vars, key_vars, junk, crypto_ivec_initdata, main_pc, op, cptype,
                    in_mem, in_cap, out_mem, iv, outl, plain, in_written, enc_plain,
                    pad_bs >>

(* ------------------------------------------------------------------ *)
(* A session: the caller resolves the cipher, derives the key, and      *)
(* transforms a datagram                                                *)
(* ------------------------------------------------------------------ *)
\* crypto_type = get_crypto_type(name)
Resolve ==
    /\ proc = "running"
    /\ main_pc = "start"
    /\ LET r == get_crypto_type(name)
       IN  /\ crypto_type' = r.ret
           /\ proc' = c_assert(~r.aborted)
    /\ main_pc' = "resolved"
    /\ UNCHANGED << name, passwd, key_vars, junk, crypto_ivec_initdata, call_vars, pad_bs >>

\* The caller reports an unrecognised name and goes no further.
ExitUnknown ==
    /\ proc = "running"
    /\ main_pc = "resolved"
    /\ crypto_type = NULL
    /\ main_pc' = "exit"
    /\ UNCHANGED << cfg_vars, key_vars, junk, crypto_ivec_initdata, proc, call_vars, pad_bs >>

\* The caller derives the key of the resolved cipher into its key buffer:
\* fill_with_string_md5sum(passwd, crypto_key, key_length)
DeriveKey ==
    /\ proc = "running"
    /\ main_pc = "resolved"
    /\ crypto_type # NULL
    /\ LET outlen == EVP_CIPHER_key_length(crypto_type)
           r == fill_with_string_md5sum(passwd, crypto_key, outlen)
       IN  /\ crypto_key' = r.mem
           /\ key_outlen' = outlen
           /\ key_written' = r.written
           /\ key_calls' = key_calls + 1
           /\ key_first' = MemRead(r.mem, 0, outlen)
           /\ proc' \in AfterWrite(r.written, key_cap)
    /\ main_pc' = "keyed"
    /\ UNCHANGED << cfg_vars, key_cap, junk, crypto_ivec_initdata, call_vars, pad_bs >>

\* The caller hands a datagram to datagram_encrypt or datagram_decrypt.
CallTransform(t) ==
    /\ proc = "running"
    /\ main_pc = "keyed"
    /\ pc[t] = "idle"
    /\ \E o \in {"encrypt", "decrypt"}, len \in 0..MaxLen, p \in Patterns, slack \in Slacks :
          Enter(t, o, crypto_type, PlainOf(len, p), len + slack)
    /\ main_pc' = "called"
    /\ UNCHANGED << cfg_vars, key_vars, junk, crypto_ivec_initdata, proc, ctx, enc_plain,
                    pad_bs >>

\* The peer hands the datagram datagram_encrypt produced (its bytes and the
\* length reported in *dlen) to datagram_decrypt, with the same key and cipher.
CallDecryptOfEncrypted(t) ==
    /\ proc = "running"
    /\ main_pc = "called"
    /\ pc[t] = "ret"
    /\ op[t] = "encrypt"
    /\ Enter(t, "decrypt", cptype[t], MemRead(out_mem[t], 0, dlen[t]),
             IF in_cap[t] < dlen[t] THEN dlen[t] ELSE in_cap[t])
    /\ enc_plain' = [enc_plain EXCEPT ![t] = plain[t]]
    /\ main_pc' = "roundtrip"
    /\ UNCHANGED << cfg_vars, key_vars, junk, crypto_ivec_initdata, proc, ctx, pad_bs >>

Init ==
    /\ name \in Names
    /\ passwd \in SessionPassphrases
    /\ crypto_type = NULL
    /\ junk \in JunkBytes
    /\ crypto_ivec_initdata = IvecInit
    /\ main_pc = "start"
    /\ proc = "running"
    /\ pad_bs = 0
    /\ NoKey
    /\ NoCall

Next ==
    \/ Resolve
    \/ ExitUnknown
    \/ DeriveKey
    \/ CallTransform(1)
    \/ Pad(1)
    \/ CipherInit(1)
    \/ CipherUpdate(1)
    \/ CipherFinal(1)
    \/ CallDecryptOfEncrypted(1)

Spec == Init /\ [][Next]_vars

(* ------------------------------------------------------------------ *)
(* CRYPTO_DATA_PADDING alone, on every block size                       *)
(* ------------------------------------------------------------------ *)
\* CRYPTO_DATA_PADDING(in, dlen, pad_bs) on call 1's buffer
ApplyPadding ==
    /\ proc = "running"
    /\ pc[1] = "pad"
    /\ LET r == CRYPTO_DATA_PADDING(in_mem[1], dlen[1], pad_bs)
       IN  /\ in_mem' = [in_mem EXCEPT ![1] = r.mem]
           /\ dlen' = [dlen EXCEPT ![1] = r.dlen]
           /\ in_written' = [in_written EXCEPT ![1] = r.written]
           /\ proc' \in AfterWrite(r.written, in_cap[1])
    /\ pc' = [pc EXCEPT ![1] = "padded"]
    /\ UNCHANGED << cfg_vars, key_vars, junk, crypto_ivec_initdata, main_pc, op, cptype,
                    in_cap, out_mem, iv, ctx, outl, outl2, plain, evp_failed, enc_plain,
                    pad_bs >>

InitPad ==
    /\ name = << >>
    /\ passwd = << >>
    /\ crypto_type = NULL
    /\ junk \in JunkBytes
    /\ crypto_ivec_initdata = IvecInit
    /\ main_pc = "padding"
    /\ proc = "running"
    /\ pad_bs \in 1..MaxBs
    /\ NoKey
    /\ \E len \in 0..(MaxBlocks * pad_bs), p \in Patterns, slack \in {0, pad_bs} :
          LET data == PlainOf(len, p)
          IN  /\ pc = [t \in Calls |-> IF t = 1 THEN "pad" ELSE "idle"]
              /\ op = [t \in Calls |-> "none"]
              /\ cptype = [t \in Calls |-> NULL]
              /\ in_mem = [t \in Calls |->
                              IF t = 1 THEN MemOf(data, len + pad_bs, junk) ELSE << >>]
              /\ in_cap = [t \in Calls |-> IF t = 1 THEN len + slack ELSE 0]
              /\ dlen = [t \in Calls |-> IF t = 1 THEN len ELSE 0]
              /\ plain = [t \in Calls |-> IF t = 1 THEN data ELSE << >>]
    /\ out_mem = [t \in Calls |-> << >>]
    /\ iv = [t \in Calls |-> << >>]
    /\ ctx = [t \in Calls |-> NoCtx]
    /\ outl = [t \in Calls |-> 0]
    /\ outl2 = [t \in Calls |-> 0]
    /\ in_written = [t \in Calls |-> {}]
    /\ evp_failed = [t \in Calls |-> FALSE]
    /\ enc_plain = [t \in Calls |-> << >>]

NextPad == ApplyPadding

SpecPad == InitPad /\ [][NextPad]_vars

(* ------------------------------------------------------------------ *)
(* fill_with_string_md5sum alone, on every outlen                       *)
(* ------------------------------------------------------------------ *)
\* fill_with_string_md5sum(passwd, crypto_key, key_outlen), called twice on
\* the same buffer
KeyFill ==
    /\ proc = "running"
    /\ key_calls < 2
    /\ LET r == fill_with_string_md5sum(passwd, crypto_key, key_outlen)
       IN  /\ crypto_key' = r.mem
           /\ key_written' = r.written
           /\ key_first' = IF key_calls = 0 THEN MemRead(r.mem, 0, key_outlen)
                                            ELSE key_first
           /\ proc' \in AfterWrite(r.written, key_cap)
    /\ key_calls' = key_calls + 1
    /\ UNCHANGED << cfg_vars, key_outlen, key_cap, junk, crypto_ivec_initdata, main_pc,
                    call_vars, pad_bs >>

InitKey ==
    /\ name = << >>
    /\ passwd \in Passphrases
    /\ crypto_type = NULL
    /\ junk \in JunkBytes
    /\ crypto_ivec_initdata = IvecInit
    /\ main_pc = "deriving"
    /\ proc = "running"
    /\ pad_bs = 0
    /\ crypto_key = FreshMem(KeyMemSize, junk)
    /\ key_outlen \in 1..MaxKeyLen
    /\ key_cap \in {key_outlen, IF key_outlen < CRYPTO_MAX_KEY_SIZE
                                 THEN CRYPTO_MAX_KEY_SIZE ELSE key_outlen}
    /\ key_written = {}
    /\ key_calls = 0
    /\ key_first = << >>
    /\ NoCall

NextKey == KeyFill

SpecKey == InitKey /\ [][NextKey]_vars

(* ------------------------------------------------------------------ *)
(* Two calls of the engine at once, on their own buffers, with the      *)
(* shared key                                                           *)
(* ------------------------------------------------------------------ *)
\* the key buffer after fill_with_string_md5sum(pw, key, CRYPTO_MAX_KEY_SIZE)
KeyOf(pw, j) ==
    fill_with_string_md5sum(pw, FreshMem(KeyMemSize, j), CRYPTO_MAX_KEY_SIZE).mem

\* a call as Enter leaves it
CallState(o, c, data, cap, j) ==
    [pc |-> "pad", op |-> o, cptype |-> c,
     in_mem |-> MemOf(data, Len(data) + CRYPTO_MAX_BLOCK_SIZE, j),
     in_cap |-> cap, dlen |-> Len(data),
     out_mem |-> FreshMem(Len(data) + CRYPTO_MAX_BLOCK_SIZE, j),
     iv |-> FreshMem(CRYPTO_MAX_KEY_SIZE, j), plain |-> data]

InitConc ==
    /\ name = << >>
    /\ passwd \in SessionPassphrases
    /\ crypto_type = NULL
    /\ junk = CHOOSE j \in JunkBytes : TRUE
    /\ crypto_ivec_initdata = IvecInit
    /\ main_pc = "concurrent"
    /\ proc = "running"
    /\ pad_bs = 0
    /\ crypto_key = KeyOf(passwd, junk)
    /\ key_outlen = CRYPTO_MAX_KEY_SIZE
    /\ key_cap = CRYPTO_MAX_KEY_SIZE
    /\ key_written = 0..(CRYPTO_MAX_KEY_SIZE - 1)
    /\ key_calls = 1
    /\ key_first = MemRead(crypto_key, 0, CRYPTO_MAX_KEY_SIZE)
    /\ \E len \in 0..ConcMaxLen, c1 \in Ciphers, c2 \in Ciphers,
          o2 \in {"encrypt", "decrypt"}, p2 \in Patterns :
          LET p1 == CHOOSE p \in Patterns : p # 0
              call == [t \in Calls |->
                         IF t = 1
                         THEN CallState("encrypt", c1, PlainOf(len, p1),
                                        len + CRYPTO_MAX_BLOCK_SIZE, junk)
                         ELSE CallState(o2, c2, PlainOf(len, p2),
                                        len + CRYPTO_MAX_BLOCK_SIZE, junk)]
          IN  /\ pc = [t \in Calls |-> call[t].pc]
              /\ op = [t \in Calls |-> call[t].op]
              /\ cptype = [t \in Calls |-> call[t].cptype]
              /\ in_mem = [t \in Calls |-> call[t].in_mem]
              /\ in_cap = [t \in Calls |-> call[t].in_cap]
              /\ dlen = [t \in Calls |-> call[t].dlen]
              /\ out_mem = [t \in Calls |-> call[t].out_mem]
              /\ iv = [t \in Calls |-> call[t].iv]
              /\ plain = [t \in Calls |-> call[t].plain]
    /\ ctx = [t \in Calls |-> NoCtx]
    /\ outl = [t \in Calls |-> 0]
    /\ outl2 = [t \in Calls |-> 0]
    /\ in_written = [t \in Calls |-> {}]
    /\ evp_failed = [t \in Calls |-> FALSE]
    /\ enc_plain = [t \in Calls |-> << >>]

NextConc ==
    \E t \in Calls :
        \/ Pad(t)
        \/ CipherInit(t)
        \/ CipherUpdate(t)
        \/ CipherFinal(t)

SpecConc == InitConc /\ [][NextConc]_vars

(* ------------------------------------------------------------------ *)
(* Properties                                                           *)
(* ------------------------------------------------------------------ *)
\* the smallest multiple of bs that is >= len
PadTo(len, bs) == CHOOSE m \in len..(len + bs - 1) : m % bs = 0

\* n zero bytes
Zeros(n) == [i \in 1..n |-> 0]

\* The block size the engine pads to, as the specification states it: the
\* cipher's IV length, 16 for a cipher without IV (aes-128, aes-256: 16;
\* des, desx: 8; rc4: 16).
SpecBlockSize(c) == << 16, 16, 8, 8, 16 >>[c]

\* a and b are the same string up to the case of their letters
UpperOf(ch) == IF ch >= 97 /\ ch <= 122 THEN ch - 32 ELSE ch
SameIgnoringCase(a, b) ==
    /\ Len(a) = Len(b)
    /\ \A i \in 1..Len(a) : UpperOf(a[i]) = UpperOf(b[i])

\* call t has returned from datagram_encrypt / datagram_decrypt
Returned(t, o) == pc[t] = "ret" /\ op[t] = o

\* C1: round trip. When datagram_decrypt has returned from the output of
\* datagram_encrypt(P) (same key, same cipher), the length it reports is
\* the padded length of P and its output is P followed by the zero padding.
C1_RoundTrip ==
    \A t \in Calls :
        (main_pc = "roundtrip" /\ Returned(t, "decrypt")) =>
            LET P == enc_plain[t]
                n == PadTo(Len(P), SpecBlockSize(cptype[t]))
            IN  /\ dlen[t] = n
                /\ MemRead(out_mem[t], 0, n) = P \o Zeros(n - Len(P))

\* A round trip of a plaintext of more than one block that needed padding,
\* whose ciphertext is not the padded plaintext.
C1_Witness ==
    /\ main_pc = "roundtrip"
    /\ Returned(1, "decrypt")
    /\ Len(enc_plain[1]) > SpecBlockSize(cptype[1])
    /\ Len(enc_plain[1]) % SpecBlockSize(cptype[1]) # 0
    /\ enc_plain[1] # Zeros(Len(enc_plain[1]))
    /\ plain[1] # MemRead(out_mem[1], 0, dlen[1])

\* C2: padding and reported length of datagram_encrypt. With bs the block
\* size of the cipher and len the length handed in, the reported *dlen is
\* the smallest multiple of bs >= len; when len % bs # 0 exactly
\* bs - (len % bs) bytes are appended to the input, all zero; when
\* len % bs = 0 nothing is appended and the length is unchanged.
C2_EncryptLength ==
    \A t \in Calls :
        Returned(t, "encrypt") =>
            LET len == Len(plain[t])
                bs == SpecBlockSize(cptype[t])
            IN  /\ dlen[t] % bs = 0
                /\ dlen[t] >= len
                /\ \A m \in len..dlen[t] : m % bs = 0 => m = dlen[t]
                /\ len % bs # 0 =>
                      /\ in_written[t] = len..(len + (bs - (len % bs)) - 1)
                      /\ Cardinality(in_written[t]) = bs - (len % bs)
                      /\ \A i \in in_written[t] : in_mem[t][i] = 0
                /\ len % bs = 0 =>
                      /\ in_written[t] = {}
                      /\ dlen[t] = len

\* datagram_encrypt has returned for rc4 (no IV) on a length that is no
\* multiple of 16.
C2_Witness ==
    /\ Returned(1, "encrypt")
    /\ EVP_CIPHER_iv_length(cptype[1]) = 0
    /\ Len(plain[1]) % 16 # 0
    /\ dlen[1] = 16

\* C3 as stated: for every block size bs and every k >= 1, on a length of
\* k * bs - 1 the padding step appends exactly bs - 1 bytes, all zero.
C3_OneShort ==
    (pc[1] = "padded" /\ (Len(plain[1]) + 1) % pad_bs = 0) =>
        /\ Cardinality(in_written[1]) = pad_bs - 1
        /\ dlen[1] = Len(plain[1]) + pad_bs - 1
        /\ MemRead(in_mem[1], Len(plain[1]), pad_bs - 1) = Zeros(pad_bs - 1)

\* C3 amended: for every block size bs >= 2 and every k >= 1, on a length
\* of k * bs - 1 the padding step appends exactly one byte, a zero, which
\* brings the length to k * bs; the bytes before it are unchanged.
C3_OneShortOneByte ==
    (pc[1] = "padded" /\ pad_bs >= 2 /\ (Len(plain[1]) + 1) % pad_bs = 0) =>
        /\ in_written[1] = {Len(plain[1])}
        /\ in_mem[1][Len(plain[1])] = 0
        /\ dlen[1] = Len(plain[1]) + 1
        /\ dlen[1] % pad_bs = 0
        /\ MemRead(in_mem[1], 0, Len(plain[1])) = plain[1]

\* The padding step has run on the second block boundary minus one, for a
\* block size that is neither 8 nor 16.
C3_Witness ==
    /\ pc[1] = "padded"
    /\ pad_bs = 5
    /\ Len(plain[1]) = 2 * pad_bs - 1
    /\ in_written[1] = {9}

\* C4: key derivation. After fill_with_string_md5sum the key is the digest
\* of the passphrase tiled: key[i] = seed[i mod 16] for 0 <= i < key_length
\* (the last tile truncated); a second call with the same inputs leaves the
\* same bytes.
C4_KeyTiling ==
    key_calls >= 1 =>
        /\ \A i \in 0..(key_outlen - 1) : crypto_key[i] = MD5(passwd)[(i % 16) + 1]
        /\ key_calls = 2 => MemRead(crypto_key, 0, key_outlen) = key_first

\* The key of 40 bytes derived twice from "secret": two tiles and a
\* truncated one.
C4_Witness ==
    /\ key_calls = 2
    /\ key_outlen = 40
    /\ Len(passwd) = 6
    /\ MemRead(crypto_key, 16, 16) = MemRead(crypto_key, 0, 16)
    /\ MemRead(crypto_key, 32, 8) = MemRead(crypto_key, 0, 8)
    /\ crypto_key[40] = junk

\* C5: cipher resolution. get_crypto_type returns a descriptor exactly when
\* the name is, ignoring letter case, one of the table's names, and then it
\* is the descriptor of that one entry; for every other name it returns
\* none, and then no key is derived and no transform is run.
C5_Resolution ==
    main_pc # "start" =>
        /\ crypto_type # NULL <=>
              \E i \in 1..Len(cipher_pairs) : SameIgnoringCase(name, cipher_pairs[i].name)
        /\ crypto_type # NULL =>
              /\ crypto_type \in 1..Len(cipher_pairs)
              /\ \A i \in 1..Len(cipher_pairs) :
                    SameIgnoringCase(name, cipher_pairs[i].name) <=> i = crypto_type
        /\ crypto_type = NULL =>
              /\ key_calls = 0
              /\ \A t \in Calls : pc[t] = "idle"
              /\ main_pc \in {"resolved", "exit"}

\* "blowfish" was looked up, no descriptor came back and the caller stopped.
C5_Witness ==
    /\ main_pc = "exit"
    /\ crypto_type = NULL
    /\ name = <<98, 108, 111, 119, 102, 105, 115, 104>>

\* C6 as stated: for the same plaintext and passphrase, datagram_encrypt
\* under aes-128 and under aes-256 reports different lengths, each the
\* plaintext length padded to the cipher's block size.
C6_DifferentLengths ==
    (/\ Returned(1, "encrypt") /\ Returned(2, "encrypt")
     /\ cptype[1] = 1 /\ cptype[2] = 2
     /\ plain[1] = plain[2]) =>
        /\ dlen[1] # dlen[2]
        /\ dlen[1] = PadTo(Len(plain[1]), SpecBlockSize(1))
        /\ dlen[2] = PadTo(Len(plain[2]), SpecBlockSize(2))

\* C6 amended: for the same plaintext and passphrase, datagram_encrypt
\* under aes-128 and under aes-256 reports the same length, the plaintext
\* length padded to 16, the block size the two ciphers share.
C6_SameLength ==
    (/\ Returned(1, "encrypt") /\ Returned(2, "encrypt")
     /\ cptype[1] = 1 /\ cptype[2] = 2
     /\ plain[1] = plain[2]) =>
        /\ dlen[1] = dlen[2]
        /\ dlen[1] = PadTo(Len(plain[1]), 16)

\* Both calls have returned, aes-128 and aes-256 on the same plaintext of a
\* length that needed padding, with different keys taken from the same
\* key buffer.
C6_Witness ==
    /\ Returned(1, "encrypt") /\ Returned(2, "encrypt")
    /\ cptype[1] = 1 /\ cptype[2] = 2
    /\ plain[1] = plain[2]
    /\ Len(plain[1]) % 16 # 0
    /\ dlen[1] = 16

\* C7: fail fast. A call in which an EVP step returned failure never
\* returns to its caller: the process has aborted, in that step.
C7_FailFast ==
    \A t \in Calls :
        /\ pc[t] = "ret" => ~evp_failed[t]
        /\ evp_failed[t] => proc = "aborted" /\ pc[t] \in {"init", "update", "final"}

\* The cipher initialisation of a datagram_decrypt failed and the process
\* aborted there.
C7_Witness ==
    /\ evp_failed[1]
    /\ op[1] = "decrypt"
    /\ pc[1] = "init"
    /\ proc = "aborted"

\* What a call of the engine that runs alone, start to end, leaves: the
\* reported length and the output bytes, from the key buffer, the
\* operation, the cipher and the input bytes only.
AloneResult(key_mem, o, c, data) ==
    LET padded == CRYPTO_DATA_PADDING(MemOf(data, Len(data) + CRYPTO_MAX_BLOCK_SIZE, 0),
                                      Len(data), SpecBlockSize(c))
        cx == EVP_CipherInit_ex(c, key_mem, MemOf(IvecInit, CRYPTO_MAX_BLOCK_SIZE, 0),
                                o = "encrypt")
        r == EVP_CipherUpdate(cx, MemRead(padded.mem, 0, padded.dlen))
    IN  [dlen |-> Len(r.out), out |-> r.out]

\* C8: determinism and reentrancy. However the steps of the two calls are
\* interleaved, what a call returns (length and bytes) is what it returns
\* when it runs alone on its key, cipher and input, so two calls on the same
\* key, cipher and plaintext return the same bytes; and no step changes
\* the shared key or the IV data.
C8_Deterministic ==
    /\ \A t \in Calls :
          pc[t] = "ret" =>
              LET alone == AloneResult(KeyOf(passwd, junk), op[t], cptype[t], plain[t])
              IN  /\ dlen[t] = alone.dlen
                  /\ MemRead(out_mem[t], 0, dlen[t]) = alone.out
    /\ \A t1, t2 \in Calls :
          (/\ pc[t1] = "ret" /\ pc[t2] = "ret"
           /\ op[t1] = op[t2] /\ cptype[t1] = cptype[t2] /\ plain[t1] = plain[t2]) =>
              /\ dlen[t1] = dlen[t2]
              /\ MemRead(out_mem[t1], 0, dlen[t1]) = MemRead(out_mem[t2], 0, dlen[t2])
    /\ crypto_key = KeyOf(passwd, junk)
    /\ crypto_ivec_initdata = IvecInit

\* Both calls have returned from datagram_encrypt under des on the same
\* plaintext, of a length that needed padding.
C8_Witness ==
    /\ Returned(1, "encrypt") /\ Returned(2, "encrypt")
    /\ cptype[1] = 3 /\ cptype[2] = 3
    /\ plain[1] = plain[2]
    /\ Len(plain[1]) = 9
    /\ dlen[1] = 16
    /\ MemRead(out_mem[1], 0, 16) = MemRead(out_mem[2], 0, 16)

\* C9: key buffer bound. fill_with_string_md5sum writes only to the bytes
\* out[0 .. key_length - 1], for every key_length >= 1.
C9_WritesWithinKey ==
    key_calls >= 1 => \A i \in key_written : i < key_outlen

\* the steps of a call after the padding
Padded(t) == pc[t] \in {"init", "update", "final", "ret"}

====
